---- MODULE Spec2Model ----
(***************************************************************************)
(* Model of src/main.py, the FastAPI gateway in front of the hosted        *)
(* Real-ESRGAN model.  One request is followed from its arrival to its     *)
(* HTTP response.  A handler blocks only inside replicate.run, so a        *)
(* handler is two kinds of step: the code up to the delegate call, and     *)
(* the code from the delegate's return (or exception) to the next          *)
(* delegate call or to the response.                                       *)
(***************************************************************************)
EXTENDS Integers, Sequences, FiniteSets, TLC

VARIABLES pc, op, request, calls, results, errors, i, fs, temp_file, temp_file_path,
          response, replies

\* pc              where the handler is: "idle" (no request yet), "url_wait",
\*                 "file_wait", "batch_wait" (blocked in replicate.run), "done"
\* op              the operation serving the request
\* request         the request's parameters
\* calls           the input_data of every replicate.run invocation, in order
\* replies         what each finished replicate.run invocation returned or raised
\* results, errors the two lists enhance_batch builds
\* i               number of batch elements already processed (the index of the
\*                 element whose call is in flight)
\* fs              the temporary files that exist on disk
\* temp_file       the file NamedTemporaryFile created, None before that
\* temp_file_path  the local variable of that name, None until line 114 assigns it
\* response        the HTTP response, NoResponse until the handler has answered
vars == <<pc, op, request, calls, results, errors, i, fs, temp_file, temp_file_path,
          response, replies>>

(***************************************************************************)
(* Bounds of the explored inputs.                                          *)
(***************************************************************************)
\* longest batch a client sends
MaxUrls == 11
\* batches up to this length are drawn with every combination of URLs
MaxFree == 2
\* calls of one request whose outcome is drawn with every output and message
MaxVaried == 2

(***************************************************************************)
(* Values                                                                  *)
(***************************************************************************)
\* Optional[T]: None is the empty sequence, a value v is <<v>>
None == <<>>

Some(v) == <<v>>

\* HttpUrl values a client sends (already accepted by pydantic)
Urls == << [scheme |-> "https", host |-> "x", path |-> "/img.png"],
           [scheme |-> "https", host |-> "y", path |-> "/pic.jpg"] >>

\* str(HttpUrl)
StrUrl(u) == u.scheme \o "://" \o u.host \o u.path

\* scale values a client sends
Scales == {0, 1, 2, 3, 4, 8, 16}

\* what replicate.run returns: an output object whose str() is its URL
Refs == { [url |-> "https://cdn/out.png"], [url |-> "https://cdn/other.png"] }

\* str(output)
StrOutput(o) == o.url

\* messages of the exceptions replicate.run raises
Msgs == {"upstream timeout", "model error"}

\* an outcome of one replicate.run call: a returned output or a raised Exception
Outcomes == [ok : {TRUE}, value : Refs] \cup [ok : {FALSE}, value : Msgs]

\* the outcomes explored for the call made after n earlier calls: any output or
\* message for the first MaxVaried calls of a request, then one output or one message
OutcomesAfter(n) ==
    IF n < MaxVaried
    THEN Outcomes
    ELSE { [ok |-> TRUE, value |-> [url |-> "https://cdn/out.png"]],
           [ok |-> FALSE, value |-> "upstream timeout"] }

\* ids for the two placeholder endpoints
Ids == {"", "abc", "123"}

HTTPException(status_code, detail) ==
    [type |-> "HTTPException", status_code |-> status_code, detail |-> detail]

Exception(message) == [type |-> "Exception", message |-> message]

\* str(e): starlette's HTTPException prints "<status>: <detail>"
StrExc(e) ==
    IF e.type = "HTTPException"
    THEN ToString(e.status_code) \o ": " \o e.detail
    ELSE e.message

\* the HTTP response FastAPI builds from an HTTPException leaving a handler
Raised(e) == [status |-> e.status_code, detail |-> e.detail]

\* the HTTP response FastAPI builds from a handler's return value
Returned(body) == [status |-> 200, body |-> body]

NoResponse == [status |-> 0]

\* fault variant: a validation that also lets scale 3 through
ValidScalesWide == {2, 3, 4, 8}

ValidScales == {2, 4, 8}

BatchLimit == 10

ScaleOk(s) == s \in ValidScales

(***************************************************************************)
(* State after start-up: no request yet, no delegate call made, no         *)
(* temporary file on disk.                                                 *)
(***************************************************************************)
Init ==
    /\ pc = "idle"
    /\ op = "none"
    /\ request = [none |-> TRUE]
    /\ calls = <<>>
    /\ results = <<>>
    /\ errors = <<>>
    /\ i = 0
    /\ fs = {}
    /\ temp_file = None
    /\ temp_file_path = None
    /\ response = NoResponse
    /\ replies = <<>>

(***************************************************************************)
(* POST /enhance-from-url                                                  *)
(***************************************************************************)
\* fault variant: the 500 hides the cause
UrlExceptOpaque(e) == Raised(HTTPException(500, "Enhancement failed"))

\* the handler's only except clause: except Exception as e
UrlExcept(e) == Raised(HTTPException(500, "Enhancement failed: " \o StrExc(e)))

UrlInput(req) == [image |-> StrUrl(req.image_url), scale |-> req.scale]

\* fault variant: the response echoes the input URL as the enhanced one
UrlSuccessEcho(req, output) ==
    Returned([enhanced_image_url |-> StrUrl(req.image_url),
              original_image_url |-> StrUrl(req.image_url),
              scale |-> req.scale,
              status |-> "success"])

UrlSuccess(req, output) ==
    Returned([enhanced_image_url |-> StrOutput(output),
              original_image_url |-> StrUrl(req.image_url),
              scale |-> req.scale,
              status |-> "success"])

\* request arrives; the handler runs up to replicate.run or to its response
UrlRequest ==
    \E u \in {Urls[k] : k \in DOMAIN Urls}, s \in Scales :
        /\ pc = "idle"
        /\ op' = "enhanceFromUrl"
        /\ request' = [image_url |-> u, scale |-> s]
        /\ IF ~ScaleOk(s)
           THEN /\ response' = UrlExcept(HTTPException(400, "Scale must be 2, 4, or 8"))
                /\ pc' = "done"
                /\ calls' = calls
           ELSE /\ calls' = Append(calls, UrlInput(request'))
                /\ pc' = "url_wait"
                /\ response' = response
        /\ UNCHANGED <<results, errors, i, fs, temp_file, temp_file_path, replies>>

\* replicate.run returns or raises; the handler runs to its response
UrlReturn ==
    \E o \in OutcomesAfter(0) :
        /\ pc = "url_wait"
        /\ replies' = Append(replies, o)
        /\ response' = IF o.ok THEN UrlSuccess(request, o.value)
                       ELSE UrlExcept(Exception(o.value))
        /\ pc' = "done"
        /\ UNCHANGED <<op, request, calls, results, errors, i, fs, temp_file, temp_file_path>>

(***************************************************************************)
(* GET /download/{image_id} and GET /status/{job_id}                       *)
(***************************************************************************)
\* fault variant: an empty id is answered as a missing route
DownloadResponseLookup(image_id) ==
    IF image_id = ""
    THEN Raised(HTTPException(404, "Not Found"))
    ELSE Raised(HTTPException(501, "Download functionality not implemented"))

DownloadResponse(image_id) ==
    Raised(HTTPException(501, "Download functionality not implemented"))

StatusResponse(job_id) ==
    Raised(HTTPException(501, "Status checking not implemented"))

Download ==
    \E id \in Ids :
        /\ pc = "idle"
        /\ op' = "download"
        /\ request' = [image_id |-> id]
        /\ response' = DownloadResponse(id)
        /\ pc' = "done"
        /\ UNCHANGED <<calls, results, errors, i, fs, temp_file, temp_file_path, replies>>

GetStatus ==
    \E id \in Ids :
        /\ pc = "idle"
        /\ op' = "getStatus"
        /\ request' = [job_id |-> id]
        /\ response' = StatusResponse(id)
        /\ pc' = "done"
        /\ UNCHANGED <<calls, results, errors, i, fs, temp_file, temp_file_path, replies>>

(***************************************************************************)
(* POST /enhance-from-file                                                 *)
(***************************************************************************)
\* Python str values the handler inspects, as sequences of characters
ImagePrefix == <<"i", "m", "a", "g", "e", "/">>

ContentTypes == { None,
                  Some(<<>>),
                  Some(<<"t", "e", "x", "t", "/", "p", "l", "a", "i", "n">>),
                  Some(<<"i", "m", "a", "g", "e">>),
                  Some(<<"I", "m", "a", "g", "e", "/", "p", "n", "g">>),
                  Some(<<"i", "m", "a", "g", "e", "/", "p", "n", "g">>) }

Filenames == { None,
               Some(<<"a", ".", "p", "n", "g">>),
               Some(<<"a">>),
               Some(<<".", "p">>) }

\* str.startswith
StartsWith(str, prefix) ==
    /\ Len(str) >= Len(prefix)
    /\ SubSeq(str, 1, Len(prefix)) = prefix

\* not file.content_type or not file.content_type.startswith('image/')
NotAnImage(content_type) ==
    \/ content_type = None
    \/ content_type[1] = <<>>
    \/ ~StartsWith(content_type[1], ImagePrefix)

\* str.rfind('.'), 1-based, 0 when there is no dot
RFindDot(name) ==
    LET dots == {k \in 1..Len(name) : name[k] = "."}
    IN  IF dots = {} THEN 0 ELSE CHOOSE k \in dots : \A j \in dots : j <= k

\* pathlib: Path(name).suffix for a name without directory part
Suffix(name) ==
    LET k == RFindDot(name)
    IN  IF 1 < k /\ k < Len(name) THEN SubSeq(name, k, Len(name)) ELSE <<>>

\* random names tempfile picks
TmpNames == {"tmpa", "tmpb"}

\* points where the operating system may refuse the handler's file I/O
Faults == {"none", "read", "create", "write", "open"}

\* fault variant: the handler without its except HTTPException: raise clause
FileExceptAll(e) == Raised(HTTPException(500, "Enhancement failed: " \o StrExc(e)))

\* the outer except clauses: except HTTPException: raise / except Exception as e
FileExcept(e) ==
    IF e.type = "HTTPException"
    THEN Raised(e)
    ELSE Raised(HTTPException(500, "Enhancement failed: " \o StrExc(e)))

\* inner except clause: if os.path.exists(temp_file_path): os.unlink(temp_file_path)
CleanUp(files, path) == IF path \in files THEN files \ {path} ELSE files

FileSuccess(req, output) ==
    Returned([enhanced_image_url |-> StrOutput(output),
              original_filename |-> req.file.filename,
              scale |-> req.scale,
              status |-> "success"])

\* lines 99-125 up to replicate.run: the state the handler leaves behind
FileStart(req, fault, name) ==
    LET stay == [pc |-> "done", fs |-> fs, temp_file |-> None,
                 temp_file_path |-> None, calls |-> calls, response |-> NoResponse]
        path == [name |-> name, suffix |-> Suffix(req.file.filename[1])]
        made == [stay EXCEPT !.fs = fs \cup {path}, !.temp_file = Some(path)]
        open == [made EXCEPT !.temp_file_path = Some(path)]
    IN  IF NotAnImage(req.file.content_type)
        THEN [stay EXCEPT !.response =
                 FileExcept(HTTPException(400, "File must be an image"))]
        ELSE IF ~ScaleOk(req.scale)
        THEN [stay EXCEPT !.response =
                 FileExcept(HTTPException(400, "Scale must be 2, 4, or 8"))]
        ELSE IF fault = "read"
        THEN [stay EXCEPT !.response = FileExcept(Exception("read failed"))]
        ELSE IF req.file.filename = None
        THEN [stay EXCEPT !.response =
                 FileExcept(Exception("expected str, bytes or os.PathLike object, not NoneType"))]
        ELSE IF fault = "create"
        THEN [stay EXCEPT !.response = FileExcept(Exception("cannot create temporary file"))]
        ELSE IF fault = "write"
        THEN [made EXCEPT !.response = FileExcept(Exception("No space left on device"))]
        ELSE IF fault = "open"
        THEN [open EXCEPT !.fs = CleanUp(made.fs, path),
                          !.response = FileExcept(Exception("cannot open temporary file"))]
        ELSE [open EXCEPT !.pc = "file_wait",
                          !.calls = Append(calls, [image |-> path, scale |-> req.scale])]

FileRequest ==
    \E ct \in ContentTypes, fn \in Filenames, s \in Scales, fault \in Faults,
       name \in TmpNames :
        LET req == [file |-> [content_type |-> ct, filename |-> fn], scale |-> s]
            nxt == FileStart(req, fault, name)
        IN  /\ pc = "idle"
            /\ op' = "enhanceFromFile"
            /\ request' = req
            /\ pc' = nxt.pc
            /\ fs' = nxt.fs
            /\ temp_file' = nxt.temp_file
            /\ temp_file_path' = nxt.temp_file_path
            /\ calls' = nxt.calls
            /\ response' = nxt.response
            /\ UNCHANGED <<results, errors, i, replies>>

\* replicate.run returns or raises: lines 126-147
FileReturn ==
    \E o \in OutcomesAfter(0) :
        /\ pc = "file_wait"
        /\ replies' = Append(replies, o)
        /\ IF o.ok
           THEN /\ fs' = fs \ {temp_file_path[1]}
                /\ response' = FileSuccess(request, o.value)
           ELSE /\ fs' = CleanUp(fs, temp_file_path[1])
                /\ response' = FileExcept(Exception(o.value))
        /\ pc' = "done"
        /\ UNCHANGED <<op, request, calls, results, errors, i, temp_file, temp_file_path>>

(***************************************************************************)
(* POST /enhance-batch                                                     *)
(***************************************************************************)
UrlSet == {Urls[k] : k \in DOMAIN Urls}

\* the batches a client sends: every short batch, and for each longer length
\* the batch that cycles through Urls
AllBatches(n) == UNION {[1..m -> UrlSet] : m \in 0..n}

Cycle(n) == [k \in 1..n |-> Urls[((k - 1) % Len(Urls)) + 1]]

BatchInputs == AllBatches(MaxFree) \cup {Cycle(n) : n \in 0..MaxUrls}

\* the outer except clauses: except HTTPException: raise / except Exception as e
BatchExcept(e) ==
    IF e.type = "HTTPException"
    THEN Raised(e)
    ELSE Raised(HTTPException(500, "Batch enhancement failed: " \o StrExc(e)))

\* input_data of the iteration with enumerate index idx (0-based)
BatchInput(req, idx) ==
    [image |-> StrUrl(req.image_urls[idx + 1]), scale |-> req.scale]

\* results.append(...) of iteration idx
BatchResult(req, idx, output) ==
    [index |-> idx,
     original_url |-> StrUrl(req.image_urls[idx + 1]),
     enhanced_url |-> StrOutput(output),
     status |-> "success"]

\* fault variant: the failure is recorded under the next index
BatchErrorShifted(req, idx, e) ==
    [index |-> idx + 1,
     original_url |-> StrUrl(req.image_urls[idx + 1]),
     error |-> StrExc(e),
     status |-> "failed"]

\* errors.append(...) of iteration idx
BatchError(req, idx, e) ==
    [index |-> idx,
     original_url |-> StrUrl(req.image_urls[idx + 1]),
     error |-> StrExc(e),
     status |-> "failed"]

\* the return statement after the loop
BatchSummary(req, res, errs) ==
    Returned([results |-> res,
              errors |-> errs,
              total_processed |-> Len(res),
              total_failed |-> Len(errs),
              scale |-> req.scale])

\* fault variant: the size check is off by one
BatchValidateLoose(req) ==
    IF Len(req.image_urls) > BatchLimit + 1
    THEN Some(HTTPException(400, "Batch size limited to 10 images"))
    ELSE IF ~ScaleOk(req.scale)
    THEN Some(HTTPException(400, "Scale must be 2, 4, or 8"))
    ELSE None

\* lines 179-183: the exception the validation raises, None when it passes
BatchValidate(req) ==
    IF Len(req.image_urls) > BatchLimit
    THEN Some(HTTPException(400, "Batch size limited to 10 images"))
    ELSE IF ~ScaleOk(req.scale)
    THEN Some(HTTPException(400, "Scale must be 2, 4, or 8"))
    ELSE None

\* fault variant: the loop stops once a failure has been recorded
BatchMoreUntilFailure(req, idx) == idx < Len(req.image_urls) /\ errors = <<>>

\* the for statement: are there elements left after idx iterations
BatchMore(req, idx) == idx < Len(req.image_urls)

\* request arrives; the handler runs to the first replicate.run or to its response
BatchRequest ==
    \E urls \in BatchInputs, s \in Scales :
        LET req == [image_urls |-> urls, scale |-> s]
            bad == BatchValidate(req)
        IN  /\ pc = "idle"
            /\ op' = "enhanceBatch"
            /\ request' = req
            /\ results' = <<>>
            /\ errors' = <<>>
            /\ i' = 0
            /\ IF bad # None
               THEN /\ response' = BatchExcept(bad[1])
                    /\ pc' = "done"
                    /\ calls' = calls
               ELSE IF BatchMore(req, 0)
               THEN /\ calls' = Append(calls, BatchInput(req, 0))
                    /\ pc' = "batch_wait"
                    /\ response' = response
               ELSE /\ response' = BatchSummary(req, <<>>, <<>>)
                    /\ pc' = "done"
                    /\ calls' = calls
            /\ UNCHANGED <<fs, temp_file, temp_file_path, replies>>

\* replicate.run of iteration i returns or raises; the handler records the
\* outcome and runs to the next replicate.run or to its response
BatchReturn ==
    \E o \in OutcomesAfter(i) :
        /\ pc = "batch_wait"
        /\ replies' = Append(replies, o)
        /\ results' = IF o.ok THEN Append(results, BatchResult(request, i, o.value))
                      ELSE results
        /\ errors' = IF o.ok THEN errors
                     ELSE Append(errors, BatchError(request, i, Exception(o.value)))
        /\ i' = i + 1
        /\ IF BatchMore(request, i')
           THEN /\ calls' = Append(calls, BatchInput(request, i'))
                /\ pc' = "batch_wait"
                /\ response' = response
           ELSE /\ response' = BatchSummary(request, results', errors')
                /\ pc' = "done"
                /\ calls' = calls
        /\ UNCHANGED <<op, request, fs, temp_file, temp_file_path>>

Next ==
    \/ UrlRequest
    \/ UrlReturn
    \/ Download
    \/ GetStatus
    \/ FileRequest
    \/ FileReturn
    \/ BatchRequest
    \/ BatchReturn

Spec == Init /\ [][Next]_vars

(***************************************************************************)
(* Properties                                                              *)
(***************************************************************************)
Enhancers == {"enhanceFromUrl", "enhanceFromFile", "enhanceBatch"}

Answered == pc = "done"

\* the entries of a sequence of recorded outcomes that carry index idx
AtIndex(entries, idx) == {k \in 1..Len(entries) : entries[k].index = idx}

Ascending(entries) ==
    \A j, k \in 1..Len(entries) : j < k => entries[j].index < entries[k].index

\* C1: every /enhance-from-url request whose scale is not 2, 4 or 8 is
\* answered with status 400.
C1_InvalidScaleIs400 ==
    (Answered /\ op = "enhanceFromUrl" /\ request.scale \notin {2, 4, 8})
        => response.status = 400

\* C2: a request to any of the three enhancement operations whose scale is not
\* 2, 4 or 8 is rejected with an error response and replicate.run is never
\* called for it.
C2_InvalidScaleNoDelegateCall ==
    (op \in Enhancers /\ request.scale \notin {2, 4, 8})
        => /\ Answered
           /\ response.status >= 400
           /\ calls = <<>>
           /\ replies = <<>>

C2_Witness ==
    /\ Answered
    /\ op = "enhanceBatch"
    /\ request.scale = 3
    /\ Len(request.image_urls) = 2
    /\ response.status = 400
    /\ calls = <<>>

\* C3: a batch of n <= 10 URLs with a valid scale returns normally whichever
\* delegate calls fail; the counts add up to n and equal the lengths of the two
\* sequences; a failed index is exactly once in errors, with its URL, and not
\* in results; a successful index is exactly once in results, with its URL,
\* and not in errors.
C3_BatchPartition ==
    (Answered /\ op = "enhanceBatch" /\ Len(request.image_urls) <= 10
        /\ request.scale \in {2, 4, 8})
        => /\ response.status = 200
           /\ Len(replies) = Len(request.image_urls)
           /\ LET body == response.body
                  n == Len(request.image_urls)
              IN  /\ body.total_processed + body.total_failed = n
                  /\ body.total_processed = Len(body.results)
                  /\ body.total_failed = Len(body.errors)
                  /\ body.scale = request.scale
                  /\ \A idx \in 0..(n - 1) :
                        LET hit == IF replies[idx + 1].ok THEN body.results ELSE body.errors
                            miss == IF replies[idx + 1].ok THEN body.errors ELSE body.results
                        IN  /\ Cardinality(AtIndex(hit, idx)) = 1
                            /\ AtIndex(miss, idx) = {}
                            /\ \A k \in AtIndex(hit, idx) :
                                  hit[k].original_url = StrUrl(request.image_urls[idx + 1])

C3_Witness ==
    /\ Answered
    /\ op = "enhanceBatch"
    /\ Len(request.image_urls) = 10
    /\ response.status = 200
    /\ response.body.total_processed = 6
    /\ response.body.total_failed = 4
    /\ ~replies[1].ok
    /\ replies[2].ok

\* C4: once /enhance-from-file has created its temporary file, the file is gone
\* when the request is answered, on every exit path.
C4_TempFileRemoved ==
    (Answered /\ op = "enhanceFromFile" /\ temp_file # None)
        => temp_file[1] \notin fs

\* C5: a batch of more than 10 URLs is answered with status 400 "batch size
\* limited" and no delegate call, whatever the scale.
C5_BatchTooLarge ==
    (op = "enhanceBatch" /\ Len(request.image_urls) > 10)
        => /\ Answered
           /\ response = [status |-> 400, detail |-> "Batch size limited to 10 images"]
           /\ calls = <<>>
           /\ replies = <<>>

C5_Witness ==
    /\ Answered
    /\ op = "enhanceBatch"
    /\ Len(request.image_urls) = 11
    /\ request.scale = 3
    /\ response.status = 400
    /\ calls = <<>>

\* C6: an upload whose content type is missing or does not begin with "image/"
\* is answered with status 400 as raised (not a 500), with no delegate call and
\* no temporary file created.
C6_NotAnImageIs400 ==
    (op = "enhanceFromFile"
        /\ LET ct == request.file.content_type
           IN  \/ ct = None
               \/ Len(ct[1]) < 6
               \/ \E k \in 1..6 : ct[1][k] # ImagePrefix[k])
        => /\ Answered
           /\ response = [status |-> 400, detail |-> "File must be an image"]
           /\ calls = <<>>
           /\ temp_file = None
           /\ fs = {}

C6_Witness ==
    /\ Answered
    /\ op = "enhanceFromFile"
    /\ request.file.content_type =
          Some(<<"t", "e", "x", "t", "/", "p", "l", "a", "i", "n">>)
    /\ request.scale = 2
    /\ response.status = 400
    /\ calls = <<>>
    /\ fs = {}

\* C7: /enhance-from-url with a valid scale whose delegate call fails is
\* answered with status 500, the detail carries the delegate's message, and
\* exactly one delegate call was made.
C7_UpstreamFailureIs500 ==
    (Answered /\ op = "enhanceFromUrl" /\ request.scale \in {2, 4, 8}
        /\ Len(replies) = 1 /\ ~replies[1].ok)
        => /\ response.status = 500
           /\ response.detail = "Enhancement failed: " \o replies[1].value
           /\ Len(calls) = 1

C7_Witness ==
    /\ Answered
    /\ op = "enhanceFromUrl"
    /\ request.scale = 8
    /\ replies = <<[ok |-> FALSE, value |-> "model error"]>>
    /\ response = [status |-> 500, detail |-> "Enhancement failed: model error"]
    /\ Len(calls) = 1

\* C8: download and getStatus answer 501 for every id, the empty one included,
\* without a delegate call or any other effect.
C8_PlaceholdersAre501 ==
    (op \in {"download", "getStatus"})
        => /\ Answered
           /\ response.status = 501
           /\ calls = <<>>
           /\ replies = <<>>
           /\ fs = {}
           /\ temp_file = None
           /\ results = <<>>
           /\ errors = <<>>

C8_Witness ==
    /\ Answered
    /\ op = "download"
    /\ request.image_id = ""
    /\ response.status = 501
    /\ calls = <<>>

\* C9: /enhance-from-url with valid scale s and URL u whose delegate call
\* returns r answers 200 with enhanced_image_url r, original_image_url u,
\* scale s and status "success", after exactly one delegate call with image u
\* and scale s.
C9_UrlSuccess ==
    (Answered /\ op = "enhanceFromUrl" /\ request.scale \in {2, 4, 8}
        /\ Len(replies) = 1 /\ replies[1].ok)
        => /\ response.status = 200
           /\ response.body = [enhanced_image_url |-> replies[1].value.url,
                               original_image_url |-> StrUrl(request.image_url),
                               scale |-> request.scale,
                               status |-> "success"]
           /\ calls = <<[image |-> StrUrl(request.image_url), scale |-> request.scale]>>

C9_Witness ==
    /\ Answered
    /\ op = "enhanceFromUrl"
    /\ calls = <<[image |-> "https://x/img.png", scale |-> 4]>>
    /\ replies = <<[ok |-> TRUE, value |-> [url |-> "https://cdn/out.png"]]>>
    /\ response = [status |-> 200,
                   body |-> [enhanced_image_url |-> "https://cdn/out.png",
                             original_image_url |-> "https://x/img.png",
                             scale |-> 4,
                             status |-> "success"]]

\* C10: a batch of n <= 10 URLs with a valid scale makes its delegate calls one
\* at a time in index order: a call is issued only when every earlier call has
\* returned or failed, the k-th call carries the k-th URL, a failure does not
\* stop the later calls, exactly n calls have been made when the batch is
\* answered, and results and errors are each in strictly ascending index order.
C10_BatchSequential ==
    (op = "enhanceBatch" /\ Len(request.image_urls) <= 10
        /\ request.scale \in {2, 4, 8})
        => /\ Len(calls) <= Len(request.image_urls)
           /\ Len(calls) = Len(replies) + (IF Answered THEN 0 ELSE 1)
           /\ \A k \in 1..Len(calls) :
                 calls[k] = [image |-> StrUrl(request.image_urls[k]),
                             scale |-> request.scale]
           /\ Answered => Len(calls) = Len(request.image_urls)
           /\ Len(results) + Len(errors) = Len(replies)
           /\ Ascending(results)
           /\ Ascending(errors)
           /\ Answered => /\ response.status = 200
                          /\ response.body.results = results
                          /\ response.body.errors = errors

C10_Witness ==
    /\ Answered
    /\ op = "enhanceBatch"
    /\ Len(request.image_urls) = 10
    /\ Len(calls) = 10
    /\ ~replies[1].ok
    /\ ~replies[4].ok
    /\ replies[10].ok
    /\ Len(errors) = 5

====
